---------------------------- MODULE Spec2Model ----------------------------
(***************************************************************************)
(* Model of src/manifold_tag_bot.py, the Manifold Markets spread bot.      *)
(*                                                                         *)
(* Probabilities are integers in basis points (One = 1.0), so 0.002 is 20  *)
(* and 0.01 is 100.  Kelly fractions and stake amounts are exact rationals *)
(* <<numerator, denominator>> with a positive denominator.  Timestamps are *)
(* integers (seconds).  Optional values are sequences: <<>> is None and    *)
(* <<v>> is the value v.                                                   *)
(***************************************************************************)
EXTENDS Integers, Sequences, FiniteSets, TLC

VARIABLES
    env,        \* the environment-derived module constants (lines 19-31)
    pc,         \* position of main()
    state,      \* BotState.last_order_times of the running process
    file,       \* content of the file at STATE_PATH
    bankroll,   \* main's local bankroll
    profile,    \* estimate_bankroll's local profile: None until /me has answered
    markets,    \* candidates of this cycle not yet handled by the for loop
    now,        \* time.time()
    calls,      \* place_bet calls made during the current cycle, in order
    lastSubmit, \* per contract, the time of its latest place_bet call in this run
    recordedIn, \* per key of state, the cycle that recorded it (0: loaded from the file)
    cycle,      \* number of main-loop iterations begun so far, over all runs
    fetched,    \* whether this run has requested a market page
    wrote,      \* whether this run has opened the state file for writing
    saved,      \* whether save_state has returned in the current iteration
    exc,        \* the exception raised in the current iteration, None if none
    ranked,     \* the list choose_markets returned in the current iteration
    call        \* harness for the pure functions: the last call and its result

vars == <<env, pc, state, file, bankroll, profile, markets, now, calls, lastSubmit,
          recordedIn, cycle, fetched, wrote, saved, exc, ranked, call>>

-----------------------------------------------------------------------------
(* Bounds of the model *)

MaxCycles == 3
MaxBets == 3
MaxStamp == 3
MaxFeed == 3

-----------------------------------------------------------------------------
(* Program constants *)
(* One is 1.0 and PriceFloor, PriceCeil are the 0.01 and 0.99 of lines      *)
(* 238-239, in basis points.  The others are the module constants of       *)
(* lines 22-30, which the environment sets: MIN_SPREAD, MIN_TRADE and       *)
(* MAX_TRADE at their defaults, the cooldown, the poll interval and the    *)
(* page and candidate caps scaled down (a cooldown of three poll           *)
(* intervals, pages of two markets, at most two candidates a cycle).       *)

One == 10000
PriceFloor == 100
PriceCeil == 9900
MIN_SPREAD == 200
MIN_TRADE == 1
MAX_TRADE == 50
COOLDOWN_SECONDS == 3
POLL_INTERVAL_SECONDS == 1
MARKET_BATCH_LIMIT == 2
MAX_MARKETS_PER_LOOP == 2

None == <<>>
Some(v) == <<v>>
EmptyMap == [k \in {} |-> 0]

\* Contract ids, in the order sort_keys=True puts them.
IdOrder == <<"a", "b", "c">>
ContractIds == {IdOrder[i] : i \in 1..Len(IdOrder)}

-----------------------------------------------------------------------------
(* Rationals *)

Rat(n, d) == <<n, d>>
RLe(x, y) == x[1] * y[2] <= y[1] * x[2]
RLt(x, y) == x[1] * y[2] < y[1] * x[2]
REq(x, y) == x[1] * y[2] = y[1] * x[2]
RMin(x, y) == IF RLe(x, y) THEN x ELSE y
RMax(x, y) == IF RLe(y, x) THEN x ELSE y

Min(x, y) == IF x <= y THEN x ELSE y
Max(x, y) == IF x >= y THEN x ELSE y

-----------------------------------------------------------------------------
(* Persistence: load_state / save_state *)

\* The state file.  kind: "missing", "unreadable" (open raises OSError),
\* "notutf8", "notjson", "nonobject" (valid JSON, top level not an object),
\* "object".  For an object, field says what "last_order_times" holds:
\* "absent", "nonmapping" or "mapping", and entries are the mapping's
\* key/value pairs in the order of the text.
FileOf(kind, field, entries) == [kind |-> kind, field |-> field, entries |-> entries]
MissingFile == FileOf("missing", "absent", <<>>)
TruncatedFile == FileOf("notjson", "absent", <<>>)

\* json.dump(..., sort_keys=True) of a mapping: its pairs, sorted by key.  A
\* timestamp is written by repr and read back to the same number.
SortedEntries(m) ==
    LET ks == SelectSeq(IdOrder, LAMBDA k : k \in DOMAIN m)
    IN  [i \in 1..Len(ks) |-> <<ks[i], m[ks[i]]>>]

\* json.load of an object: a dict of its pairs, a later pair winning.
FromEntries(es) ==
    LET keys == {es[i][1] : i \in 1..Len(es)}
        last(k) == CHOOSE i \in 1..Len(es) :
                      /\ es[i][1] = k
                      /\ \A j \in 1..Len(es) : es[j][1] = k => j <= i
    IN  [k \in keys |-> es[last(k)][2]]

\* save_state writing the mapping under another key than load_state reads.
save_state_other_key(s) == FileOf("object", "absent", SortedEntries(s))

save_state(s) == FileOf("object", "mapping", SortedEntries(s))

\* The result of load_state: raised (an exception escapes) or the mapping.
Loaded(raised, m) == [raised |-> raised, last_order_times |-> m]

load_state(f) ==
    IF f.kind = "missing" THEN Loaded(FALSE, EmptyMap)
    ELSE IF f.kind \in {"unreadable", "notjson"} THEN Loaded(FALSE, EmptyMap)
    ELSE IF f.kind = "notutf8" THEN Loaded(TRUE, EmptyMap)
    ELSE IF f.kind = "nonobject" THEN Loaded(TRUE, EmptyMap)
    ELSE IF f.field = "absent" THEN Loaded(FALSE, EmptyMap)
    ELSE IF f.field = "nonmapping" THEN Loaded(FALSE, EmptyMap)
    ELSE Loaded(FALSE, FromEntries(f.entries))

-----------------------------------------------------------------------------
(* Quote extraction *)

\* A bet of the /bets payload.  limitProb is [kind, v]: kind "none" (absent
\* or null), "num" (a JSON number, v basis points) or "str" (any other JSON
\* value).
Lp(kind, v) == [kind |-> kind, v |-> v]
Bet(isCancelled, isFilled, outcome, limitProb) ==
    [isCancelled |-> isCancelled, isFilled |-> isFilled,
     outcome |-> outcome, limitProb |-> limitProb]

\* is_limit_order_open without the isFilled test of lines 138-139.
is_limit_order_open_ignoring_filled(bet) ==
    IF bet.isCancelled THEN FALSE
    ELSE bet.limitProb.kind # "none"

is_limit_order_open(bet) ==
    IF bet.isCancelled THEN FALSE
    ELSE IF bet.isFilled THEN FALSE
    ELSE bet.limitProb.kind # "none"

SeqMax(s) == CHOOSE x \in {s[i] : i \in 1..Len(s)} : \A j \in 1..Len(s) : s[j] <= x
SeqMin(s) == CHOOSE x \in {s[i] : i \in 1..Len(s)} : \A j \in 1..Len(s) : s[j] >= x

\* The bets that reach the append of line 157 (YES) or line 159 (NO).
Counted(bet, outcome) ==
    /\ is_limit_order_open(bet)
    /\ bet.outcome \in {"YES", "NO"}
    /\ bet.limitProb.kind = "num"
    /\ bet.outcome = outcome

YesPrice(bet) == IF bet.outcome = "YES" THEN bet.limitProb.v ELSE One - bet.limitProb.v

\* None, or Some(<<best yes bid, best yes ask>>).
extract_best_quotes(bets) ==
    LET yb == SelectSeq(bets, LAMBDA b : Counted(b, "YES"))
        ya == SelectSeq(bets, LAMBDA b : Counted(b, "NO"))
        yes_bids == [i \in 1..Len(yb) |-> YesPrice(yb[i])]
        yes_asks == [i \in 1..Len(ya) |-> YesPrice(ya[i])]
    IN  IF yes_bids = <<>> \/ yes_asks = <<>> THEN None
        ELSE Some(<<SeqMax(yes_bids), SeqMin(yes_asks)>>)

-----------------------------------------------------------------------------
(* Position sizing *)

\* kelly_fraction without the cap of line 181.
kelly_fraction_uncapped(true_prob, price_prob) ==
    IF price_prob <= 0 \/ price_prob >= One THEN Rat(0, 1)
    ELSE LET edge == true_prob - price_prob
         IN  IF edge <= 0 THEN Rat(0, 1)
             ELSE Rat(edge, One - price_prob)

\* price_prob and true_prob in basis points; the result a rational.
kelly_fraction(true_prob, price_prob) ==
    IF price_prob <= 0 \/ price_prob >= One THEN Rat(0, 1)
    ELSE LET edge == true_prob - price_prob
         IN  IF edge <= 0 THEN Rat(0, 1)
             ELSE RMin(Rat(edge, One - price_prob), Rat(1, 1))

\* clamp without the upper bound of line 185.
clamp_lower_only(value, min_value, max_value) == Max(min_value, value)

clamp(value, min_value, max_value) == Max(min_value, Min(value, max_value))

\* clamp on rationals without the lower bound of line 185.
clampR_upper_only(value, min_value, max_value) == RMin(value, max_value)

\* clamp on rationals (the stake amounts).
clampR(value, min_value, max_value) == RMax(min_value, RMin(value, max_value))

-----------------------------------------------------------------------------
(* Market scanner *)

\* A market of the /markets payload.  id "" stands for a missing or empty id;
\* createdTime is None when the payload carries none.  The question text is
\* only logged and is left out.
Market(id, isResolved, isClosed, outcomeType, volume, createdTime, bets) ==
    [id |-> id, isResolved |-> isResolved, isClosed |-> isClosed,
     outcomeType |-> outcomeType, volume |-> volume,
     createdTime |-> createdTime, bets |-> bets]

MarketQuote(contract_id, yes_bid, yes_ask, volume) ==
    [contract_id |-> contract_id, yes_bid |-> yes_bid, yes_ask |-> yes_ask,
     volume |-> volume]

Take(s, n) == SubSeq(s, 1, Min(n, Len(s)))

\* The server's answer to GET /markets?limit=..&before=..: the newest `limit`
\* markets of the feed created before the cursor.
fetch_markets(feed, limit, before) ==
    Take(SelectSeq(feed, LAMBDA m :
                     \/ before = None
                     \/ m.createdTime # None /\ m.createdTime[1] < before[1]),
         limit)

\* ScanMarket without the spread tests of lines 210-214.
ScanMarket_any_spread(market, acc) ==
    IF market.isResolved \/ market.isClosed THEN acc
    ELSE IF market.outcomeType # "BINARY" THEN acc
    ELSE IF market.id = "" THEN acc
    ELSE LET quotes == extract_best_quotes(market.bets)
         IN  IF quotes = None THEN acc
             ELSE Append(acc, MarketQuote(market.id, quotes[1][1], quotes[1][2],
                                          market.volume))

\* The body of the for loop over one market (lines 196-223): the candidates
\* with this market's quote appended, or unchanged when it is skipped.
ScanMarket(market, acc) ==
    IF market.isResolved \/ market.isClosed THEN acc
    ELSE IF market.outcomeType # "BINARY" THEN acc
    ELSE IF market.id = "" THEN acc
    ELSE LET quotes == extract_best_quotes(market.bets)
         IN  IF quotes = None THEN acc
             ELSE LET yes_bid == quotes[1][1]
                      yes_ask == quotes[1][2]
                  IN  IF yes_ask <= yes_bid THEN acc
                      ELSE IF yes_ask - yes_bid < MIN_SPREAD THEN acc
                      ELSE Append(acc, MarketQuote(market.id, yes_bid, yes_ask,
                                                   market.volume))

\* The for loop over a page, from its i-th market, with the break of line 224.
RECURSIVE ScanBatch(_, _, _)
ScanBatch(batch, i, acc) ==
    IF i > Len(batch) THEN acc
    ELSE LET acc2 == ScanMarket(batch[i], acc)
         IN  IF Len(acc2) > Len(acc) /\ Len(acc2) >= MAX_MARKETS_PER_LOOP THEN acc2
             ELSE ScanBatch(batch, i + 1, acc2)

\* What the while loop has done when it ends: the candidates, and the page
\* requests it made, each with its cursor, the page served and the number of
\* candidates held when it was made.
Scanned(acc, log) == [markets |-> acc, requests |-> log]
PageRequest(before, batch, have) == [before |-> before, batch |-> batch, have |-> have]

\* ScanLoop without the loop condition of line 191.
RECURSIVE ScanLoop_uncapped(_, _, _, _)
ScanLoop_uncapped(feed, before, acc, log) ==
    LET batch == fetch_markets(feed, MARKET_BATCH_LIMIT, before)
        log2 == Append(log, PageRequest(before, batch, Len(acc)))
    IN  IF batch = <<>> THEN Scanned(acc, log2)
        ELSE LET acc2 == ScanBatch(batch, 1, acc)
                 next == batch[Len(batch)].createdTime
             IN  IF next = None THEN Scanned(acc2, log2)
                 ELSE ScanLoop_uncapped(feed, next, acc2, log2)

\* The while loop of lines 191-228.
RECURSIVE ScanLoop(_, _, _, _)
ScanLoop(feed, before, acc, log) ==
    IF ~(Len(acc) < MAX_MARKETS_PER_LOOP) THEN Scanned(acc, log)
    ELSE LET batch == fetch_markets(feed, MARKET_BATCH_LIMIT, before)
             log2 == Append(log, PageRequest(before, batch, Len(acc)))
         IN  IF batch = <<>> THEN Scanned(acc, log2)
             ELSE LET acc2 == ScanBatch(batch, 1, acc)
                      next == batch[Len(batch)].createdTime
                  IN  IF next = None THEN Scanned(acc2, log2)
                      ELSE ScanLoop(feed, next, acc2, log2)

\* The candidates the while loop ends with.
ScanPages(feed, before, acc) == ScanLoop(feed, before, acc, <<>>).markets

\* The sort key of line 229, compared as Python compares tuples.
KeyGt(q, r) ==
    \/ q.yes_ask - q.yes_bid > r.yes_ask - r.yes_bid
    \/ /\ q.yes_ask - q.yes_bid = r.yes_ask - r.yes_bid
       /\ q.volume > r.volume

\* list.sort(reverse=True) is stable: equal keys keep their order.
RECURSIVE InsertQuote(_, _)
InsertQuote(sorted, q) ==
    IF sorted = <<>> THEN <<q>>
    ELSE IF KeyGt(q, Head(sorted)) THEN <<q>> \o sorted
    ELSE <<Head(sorted)>> \o InsertQuote(Tail(sorted), q)

RECURSIVE SortQuotes(_)
SortQuotes(qs) ==
    IF qs = <<>> THEN <<>>
    ELSE InsertQuote(SortQuotes(SubSeq(qs, 1, Len(qs) - 1)), qs[Len(qs)])

\* choose_markets without the sort of line 229.
choose_markets_unsorted(feed) == ScanPages(feed, None, <<>>)

choose_markets(feed) == SortQuotes(ScanPages(feed, None, <<>>))

-----------------------------------------------------------------------------
(* Order placement *)

\* OrderPlan with the tick taken off the mid instead of added to it.
OrderPlan_tick_inward(quote, roll, tick) ==
    LET mid == (quote.yes_bid + quote.yes_ask) \div 2
        yes_price == clamp(mid - tick, PriceFloor, PriceCeil)
        no_price == clamp(One - mid - tick, PriceFloor, PriceCeil)
        yes_fraction == kelly_fraction(mid, yes_price)
        no_fraction == kelly_fraction(One - mid, no_price)
    IN  [mid |-> mid, yes_price |-> yes_price, no_price |-> no_price,
         yes_fraction |-> yes_fraction, no_fraction |-> no_fraction,
         yes_amount |-> clampR(Rat(roll * yes_fraction[1], yes_fraction[2]),
                               Rat(MIN_TRADE, 1), Rat(MAX_TRADE, 1)),
         no_amount |-> clampR(Rat(roll * no_fraction[1], no_fraction[2]),
                              Rat(MIN_TRADE, 1), Rat(MAX_TRADE, 1))]

\* Lines 237-245 for one quote: prices, fractions and amounts of both legs.
OrderPlan(quote, roll, tick) ==
    LET mid == (quote.yes_bid + quote.yes_ask) \div 2
        yes_price == clamp(mid + tick, PriceFloor, PriceCeil)
        no_price == clamp(One - mid + tick, PriceFloor, PriceCeil)
        yes_fraction == kelly_fraction(mid, yes_price)
        no_fraction == kelly_fraction(One - mid, no_price)
    IN  [mid |-> mid, yes_price |-> yes_price, no_price |-> no_price,
         yes_fraction |-> yes_fraction, no_fraction |-> no_fraction,
         yes_amount |-> clampR(Rat(roll * yes_fraction[1], yes_fraction[2]),
                               Rat(MIN_TRADE, 1), Rat(MAX_TRADE, 1)),
         no_amount |-> clampR(Rat(roll * no_fraction[1], no_fraction[2]),
                              Rat(MIN_TRADE, 1), Rat(MAX_TRADE, 1))]

\* The place_bet calls of lines 264-267, in order.
PlannedBets(quote, plan, at) ==
    (IF plan.yes_fraction[1] > 0
       THEN <<[contract_id |-> quote.contract_id, outcome |-> "YES",
               amount |-> plan.yes_amount, limit_prob |-> plan.yes_price, at |-> at]>>
       ELSE <<>>)
    \o
    (IF plan.no_fraction[1] > 0
       THEN <<[contract_id |-> quote.contract_id, outcome |-> "NO",
               amount |-> plan.no_amount, limit_prob |-> One - plan.no_price, at |-> at]>>
       ELSE <<>>)

\* state.last_order_times.get(contract_id, 0)
LastOrderTime(s, contract_id) == IF contract_id \in DOMAIN s THEN s[contract_id] ELSE 0

InCooldown(s, contract_id, t) == t - LastOrderTime(s, contract_id) < COOLDOWN_SECONDS

\* The assignment of line 268 replacing the mapping by a fresh one.
Record_alone(s, contract_id, t) == [k \in {contract_id} |-> t]

\* state.last_order_times[contract_id] = t
Record(s, contract_id, t) ==
    [k \in DOMAIN s \cup {contract_id} |-> IF k = contract_id THEN t ELSE s[k]]

-----------------------------------------------------------------------------
(* The inputs of the model: order books, markets, feeds, files, environments *)

OpenBet(outcome, v) == Bet(FALSE, FALSE, outcome, Lp("num", v))

WideBook == <<OpenBet("YES", 4000), OpenBet("NO", 5000)>>
DeepBook == <<OpenBet("YES", 3000), OpenBet("NO", 5000), OpenBet("YES", 4000),
              OpenBet("NO", 4000)>>
LowBook == <<OpenBet("YES", 0), OpenBet("NO", 9800)>>
CrossedBook == <<OpenBet("YES", 6000), OpenBet("NO", 5500)>>
NarrowBook == <<OpenBet("YES", 4000), OpenBet("NO", 5900)>>
HighBook == <<OpenBet("YES", 9800), OpenBet("NO", 0)>>
\* A NO order with a limit probability below 0: a yes_ask above 1.
OverBook == <<OpenBet("YES", 9800), OpenBet("NO", -400)>>
\* A YES order with a limit probability below 0: a yes_bid below 0.
UnderBook == <<OpenBet("YES", -400), OpenBet("NO", 9800)>>
StaleBook == <<OpenBet("YES", 4000), Bet(TRUE, FALSE, "NO", Lp("num", 5000)),
               Bet(FALSE, TRUE, "NO", Lp("num", 4000)),
               Bet(FALSE, FALSE, "NO", Lp("none", 0)),
               Bet(FALSE, FALSE, "NO", Lp("str", 0))>>

Binary(id, volume, t, bets) == Market(id, FALSE, FALSE, "BINARY", volume, Some(t), bets)

\* The feeds the main loop is run against.
Feeds ==
    { <<>>,
      <<Binary("a", 10, 9, WideBook), Binary("b", 5, 8, LowBook)>>,
      <<Binary("a", 10, 9, DeepBook)>>,
      <<Market("a", TRUE, FALSE, "BINARY", 10, Some(9), WideBook),
        Binary("", 5, 8, WideBook),
        Market("a", FALSE, TRUE, "BINARY", 10, Some(7), WideBook),
        Binary("b", 5, 6, LowBook),
        Market("a", FALSE, FALSE, "BINARY", 10, None, WideBook),
        Binary("a", 10, 4, WideBook)>>,
      <<Binary("a", 10, 9, CrossedBook), Binary("b", 5, 8, NarrowBook),
        Binary("a", 10, 7, StaleBook),
        Market("b", FALSE, FALSE, "MULTIPLE_CHOICE", 5, Some(6), WideBook)>>,
      <<Binary("b", 20, 9, HighBook), Binary("a", 10, 8, WideBook)>>,
      <<Binary("b", 5, 9, WideBook), Binary("a", 10, 8, WideBook)>>,
      <<Binary("a", 10, 9, OverBook), Binary("b", 5, 8, UnderBook)>> }

StartTime == 2 * COOLDOWN_SECONDS

InitialFiles ==
    { MissingFile,
      FileOf("unreadable", "absent", <<>>),
      FileOf("notutf8", "absent", <<>>),
      TruncatedFile,
      FileOf("nonobject", "absent", <<>>),
      FileOf("object", "absent", <<>>),
      FileOf("object", "nonmapping", <<>>),
      FileOf("object", "mapping", <<>>),
      FileOf("object", "mapping", << <<"a", StartTime - 1>> >>),
      FileOf("object", "mapping", << <<"b", 1>>, <<"a", StartTime>> >>),
      FileOf("object", "mapping", << <<"b", StartTime + 3 * COOLDOWN_SECONDS>> >>) }

\* os.getenv results: MANIFOLD_API_KEY is "None" when unset.
Env(key, dry_run, roll, tick) ==
    [MANIFOLD_API_KEY |-> key, DRY_RUN |-> dry_run, BANKROLL |-> roll,
     SPREAD_TICK |-> tick]

Envs ==
    { Env("None", FALSE, 100, 20),
      Env("", FALSE, 0, 20),
      Env("key", FALSE, 0, 20),
      Env("key", FALSE, 100, -200),
      Env("key", TRUE, 100, -200) }

\* GET /me: a numeric balance, a payload without one, or a failed request.
MeResponses == {<<"balance", 0>>, <<"balance", 1000>>, <<"nobalance", 0>>, <<"error", 0>>}

\* How a network call fails: an HTTPError whose body decodes, an HTTPError
\* whose body is not UTF-8, any other exception (URLError, timeout, a payload
\* of the wrong shape).
ErrKinds == {"http", "http_badbody", "other"}

NoCall == [fn |-> "none", arg |-> <<>>, out |-> <<>>]

-----------------------------------------------------------------------------
(* main *)

Init ==
    /\ env \in Envs
    /\ file \in InitialFiles
    /\ pc = "start"
    /\ state = EmptyMap
    /\ bankroll = 0
    /\ profile = None
    /\ markets = <<>>
    /\ now = StartTime
    /\ calls = <<>>
    /\ lastSubmit = EmptyMap
    /\ recordedIn = EmptyMap
    /\ cycle = 0
    /\ fetched = FALSE
    /\ wrote = FALSE
    /\ saved = FALSE
    /\ exc = None
    /\ ranked = <<>>
    /\ call = NoCall

Running == {"load", "bankroll", "scan", "orders", "sleep"}

\* Where main goes when a cycle raises: both handlers fall through to the
\* sleep, unless the HTTPError handler itself raises while decoding the body.
AfterError(kind) == IF kind = "http_badbody" THEN "exited" ELSE "sleep"

\* Line 273: ManifoldAPI(MANIFOLD_API_KEY)
ApiInit ==
    /\ pc = "start"
    /\ pc' = IF env.MANIFOLD_API_KEY \in {"None", ""} THEN "exited" ELSE "load"
    /\ UNCHANGED <<env, state, file, bankroll, markets, now, calls, lastSubmit,
                   recordedIn, cycle, fetched, wrote, call, profile, saved, exc, ranked>>

\* Line 274: state = load_state(STATE_PATH)
LoadState ==
    /\ pc = "load"
    /\ LET r == load_state(file)
       IN  IF r.raised
             THEN /\ pc' = "exited"
                  /\ UNCHANGED <<state, recordedIn>>
             ELSE /\ pc' = "bankroll"
                  /\ state' = r.last_order_times
                  /\ recordedIn' = [k \in DOMAIN r.last_order_times |-> 0]
    /\ UNCHANGED <<env, file, bankroll, markets, now, calls, lastSubmit,
                   cycle, fetched, wrote, call, profile, saved, exc, ranked>>

\* estimate_bankroll falling back to a bankroll of 0 instead of raising.
estimate_bankroll_or_zero(e, me) ==
    IF e.BANKROLL > 0 THEN Some(e.BANKROLL)
    ELSE IF me[1] = "balance" THEN Some(me[2])
    ELSE Some(0)

\* Lines 165-172: the bankroll, or None when estimate_bankroll raises.  me is
\* the answer to GET /me, asked for only without a positive BANKROLL.
estimate_bankroll(e, me) ==
    IF e.BANKROLL > 0 THEN Some(e.BANKROLL)
    ELSE IF me[1] = "balance" THEN Some(me[2])
    ELSE None

\* Line 275: bankroll = estimate_bankroll(api), then the loop is entered.
EstimateBankroll ==
    /\ pc = "bankroll"
    /\ cycle < MaxCycles
    /\ \E me \in MeResponses :
         LET b == estimate_bankroll(env, me)
         IN  /\ profile' = IF env.BANKROLL > 0 THEN None ELSE Some(me)
             /\ IF b = None
                  THEN /\ pc' = "exited"
                       /\ UNCHANGED <<bankroll, cycle>>
                  ELSE /\ pc' = "scan"
                       /\ bankroll' = b[1]
                       /\ cycle' = cycle + 1
    /\ UNCHANGED <<env, state, file, markets, now, calls, lastSubmit,
                   recordedIn, fetched, wrote, saved, call, exc, ranked>>

\* Line 280: markets = choose_markets(api), against any feed, or raising.
ChooseMarkets ==
    /\ pc = "scan"
    /\ fetched' = TRUE
    /\ \/ \E feed \in Feeds :
            /\ markets' = choose_markets(feed)
            /\ ranked' = choose_markets(feed)
            /\ pc' = "orders"
            /\ UNCHANGED exc
       \/ \E kind \in ErrKinds :
            /\ markets' = <<>>
            /\ ranked' = <<>>
            /\ exc' = Some(kind)
            /\ pc' = AfterError(kind)
    /\ UNCHANGED <<env, state, file, bankroll, now, calls, lastSubmit,
                   recordedIn, cycle, wrote, call, profile, saved>>


\* What one invocation of maybe_place_orders does (lines 233-268): the new
\* last_order_times, the place_bet calls it makes and the exception that
\* escapes it, if any.  t is time.time() at line 235 and t2 at line 261/268;
\* fault is None or Some(<<i, kind>>): the i-th place_bet call raises `kind`.
Outcome(s, bets, raised) == [last_order_times |-> s, bets |-> bets, raised |-> raised]

\* maybe_place_orders without the DRY_RUN branch of lines 260-262.
maybe_place_orders_live_only(e, quote, roll, s, t, t2, fault) ==
    IF InCooldown(s, quote.contract_id, t) THEN Outcome(s, <<>>, None)
    ELSE LET plan == OrderPlan(quote, roll, e.SPREAD_TICK)
             planned == PlannedBets(quote, plan, t)
         IN  IF plan.yes_fraction[1] = 0 /\ plan.no_fraction[1] = 0
               THEN Outcome(s, <<>>, None)
             ELSE IF fault # None /\ fault[1][1] <= Len(planned)
               THEN Outcome(s, Take(planned, fault[1][1]), Some(fault[1][2]))
             ELSE Outcome(Record(s, quote.contract_id, t2), planned, None)

\* maybe_place_orders without the test of lines 247-248.
maybe_place_orders_without_zero_test(e, quote, roll, s, t, t2, fault) ==
    IF InCooldown(s, quote.contract_id, t) THEN Outcome(s, <<>>, None)
    ELSE LET plan == OrderPlan(quote, roll, e.SPREAD_TICK)
             planned == PlannedBets(quote, plan, t)
         IN  IF e.DRY_RUN
               THEN Outcome(Record(s, quote.contract_id, t2), <<>>, None)
             ELSE IF fault # None /\ fault[1][1] <= Len(planned)
               THEN Outcome(s, Take(planned, fault[1][1]), Some(fault[1][2]))
             ELSE Outcome(Record(s, quote.contract_id, t2), planned, None)

maybe_place_orders(e, quote, roll, s, t, t2, fault) ==
    IF InCooldown(s, quote.contract_id, t) THEN Outcome(s, <<>>, None)
    ELSE LET plan == OrderPlan(quote, roll, e.SPREAD_TICK)
             planned == PlannedBets(quote, plan, t)
         IN  IF plan.yes_fraction[1] = 0 /\ plan.no_fraction[1] = 0
               THEN Outcome(s, <<>>, None)
             ELSE IF e.DRY_RUN
               THEN Outcome(Record(s, quote.contract_id, t2), <<>>, None)
             ELSE IF fault # None /\ fault[1][1] <= Len(planned)
               THEN Outcome(s, Take(planned, fault[1][1]), Some(fault[1][2]))
             ELSE Outcome(Record(s, quote.contract_id, t2), planned, None)

Faults == {None} \cup {Some(<<i, kind>>) : i \in 1..2, kind \in ErrKinds}

\* Line 283: one iteration of the for loop over the candidates.
MaybePlaceOrders ==
    /\ pc = "orders"
    /\ markets # <<>>
    /\ \E lat \in {0, 1}, fault \in Faults :
         LET quote == Head(markets)
             r == maybe_place_orders(env, quote, bankroll, state, now, now + lat, fault)
             acted == r.bets # <<>> \/ r.last_order_times # state
         IN  /\ fault # None => r.raised # None
             /\ ~acted => lat = 0
             /\ state' = r.last_order_times
             /\ recordedIn' = IF r.last_order_times # state
                                THEN Record(recordedIn, quote.contract_id, cycle)
                                ELSE recordedIn
             /\ calls' = calls \o r.bets
             /\ now' = now + lat
             /\ exc' = r.raised
             /\ IF r.raised = None
                  THEN /\ markets' = Tail(markets)
                       /\ pc' = "orders"
                  ELSE /\ markets' = <<>>
                       /\ pc' = AfterError(r.raised[1])
    /\ UNCHANGED <<env, file, bankroll, lastSubmit, cycle, fetched, wrote, call, profile,
                   saved, ranked>>

\* Line 284: save_state(STATE_PATH, state) once the for loop is done.  The
\* write can fail before the file is opened (the file is untouched) or after
\* open(path, "w") has truncated it.
SaveState ==
    /\ pc = "orders"
    /\ markets = <<>>
    /\ \/ /\ file' = save_state(state)
          /\ wrote' = TRUE
          /\ saved' = TRUE
          /\ UNCHANGED exc
       \/ /\ file' = TruncatedFile
          /\ wrote' = TRUE
          /\ exc' = Some("other")
          /\ UNCHANGED saved
       \/ /\ exc' = Some("other")
          /\ UNCHANGED <<file, wrote, saved>>
    /\ pc' = "sleep"
    /\ UNCHANGED <<env, state, bankroll, markets, now, calls, lastSubmit,
                   recordedIn, cycle, fetched, call, profile, ranked>>

\* The calls of the finished cycle become the contract's latest submissions.
Submitted(ls, cs) ==
    [k \in DOMAIN ls \cup {cs[i].contract_id : i \in 1..Len(cs)} |->
        IF \E i \in 1..Len(cs) : cs[i].contract_id = k
          THEN cs[CHOOSE i \in 1..Len(cs) :
                    /\ cs[i].contract_id = k
                    /\ \A j \in 1..Len(cs) : cs[j].contract_id = k => j <= i].at
          ELSE ls[k]]

\* Line 289: time.sleep(POLL_INTERVAL_SECONDS), then the next iteration.
Sleep ==
    /\ pc = "sleep"
    /\ cycle < MaxCycles
    /\ now' = now + POLL_INTERVAL_SECONDS
    /\ cycle' = cycle + 1
    /\ lastSubmit' = Submitted(lastSubmit, calls)
    /\ calls' = <<>>
    /\ pc' = "scan"
    /\ saved' = FALSE
    /\ exc' = None
    /\ ranked' = <<>>
    /\ UNCHANGED <<env, state, file, bankroll, markets, recordedIn,
                   fetched, wrote, call, profile>>

\* The process is killed: anywhere, and in the middle of save_state's write.
Kill ==
    /\ pc \in Running
    /\ pc' = "killed"
    /\ UNCHANGED <<env, state, file, bankroll, markets, now, calls, lastSubmit,
                   recordedIn, cycle, fetched, wrote, call, profile, saved, exc, ranked>>

KillInSave ==
    /\ pc = "orders"
    /\ markets = <<>>
    /\ file' = TruncatedFile
    /\ wrote' = TRUE
    /\ pc' = "killed"
    /\ UNCHANGED <<env, state, bankroll, markets, now, calls, lastSubmit,
                   recordedIn, cycle, fetched, call, profile, saved, exc, ranked>>

\* The process is started again: its memory is fresh, the file is what it was.
Restart ==
    /\ pc \in {"killed", "exited"}
    /\ pc' = "start"
    /\ state' = EmptyMap
    /\ bankroll' = 0
    /\ profile' = None
    /\ markets' = <<>>
    /\ calls' = <<>>
    /\ lastSubmit' = EmptyMap
    /\ recordedIn' = EmptyMap
    /\ fetched' = FALSE
    /\ wrote' = FALSE
    /\ saved' = FALSE
    /\ exc' = None
    /\ ranked' = <<>>
    /\ UNCHANGED <<env, file, now, cycle, call>>

Next ==
    \/ ApiInit
    \/ LoadState
    \/ EstimateBankroll
    \/ ChooseMarkets
    \/ MaybePlaceOrders
    \/ SaveState
    \/ Sleep
    \/ Kill
    \/ KillInSave
    \/ Restart

Spec == Init /\ [][Next]_vars

-----------------------------------------------------------------------------
(* The pure functions, called on every input of a bounded domain *)

SeqsUpTo(S, n) == UNION {[1..k -> S] : k \in 0..n}

BetDomain ==
    {Bet(FALSE, FALSE, o, l) : o \in {"YES", "NO"},
                               l \in {Lp("num", 4000), Lp("num", 6000),
                                      Lp("str", 0), Lp("none", 0)}}
    \cup {Bet(TRUE, FALSE, "YES", Lp("num", 8000)),
          Bet(FALSE, TRUE, "NO", Lp("num", 8000)),
          Bet(TRUE, TRUE, "NO", Lp("num", 2000)),
          Bet(FALSE, FALSE, "MAYBE", Lp("num", 4000))}

\* Mappings from contract ids to timestamps.
Mappings == UNION {[D -> 0..MaxStamp] : D \in SUBSET ContractIds}

\* Markets by kind; MakeFeed numbers their creation times downwards.
MarketKinds ==
    { Market("a", FALSE, FALSE, "BINARY", 10, Some(0), WideBook),
      Market("b", FALSE, FALSE, "BINARY", 5, Some(0), LowBook),
      Market("c", FALSE, FALSE, "BINARY", 20, Some(0), DeepBook),
      Market("d", TRUE, FALSE, "BINARY", 10, Some(0), WideBook),
      Market("e", FALSE, TRUE, "BINARY", 10, Some(0), WideBook),
      Market("f", FALSE, FALSE, "MULTIPLE_CHOICE", 10, Some(0), WideBook),
      Market("", FALSE, FALSE, "BINARY", 10, Some(0), WideBook),
      Market("g", FALSE, FALSE, "BINARY", 10, Some(0), CrossedBook),
      Market("h", FALSE, FALSE, "BINARY", 10, Some(0), NarrowBook),
      Market("i", FALSE, FALSE, "BINARY", 10, Some(0), StaleBook),
      Market("j", FALSE, FALSE, "BINARY", 10, None, WideBook) }

MakeFeed(ms) ==
    [i \in 1..Len(ms) |->
        [ms[i] EXCEPT !.createdTime =
            IF ms[i].createdTime = None THEN None ELSE Some(Len(ms) - i + 1)]]

\* One call is made per behaviour, from the idle harness.
Called(fn, arg, out) == [fn |-> fn, arg |-> arg, out |-> out]

InitPure ==
    /\ env = Env("key", FALSE, 100, 20)
    /\ file = MissingFile
    /\ pc = "start"
    /\ state = EmptyMap
    /\ bankroll = 0
    /\ profile = None
    /\ markets = <<>>
    /\ now = StartTime
    /\ calls = <<>>
    /\ lastSubmit = EmptyMap
    /\ recordedIn = EmptyMap
    /\ cycle = 0
    /\ fetched = FALSE
    /\ wrote = FALSE
    /\ saved = FALSE
    /\ exc = None
    /\ ranked = <<>>
    /\ call = NoCall

Frame ==
    UNCHANGED <<env, pc, state, file, bankroll, profile, markets, now, calls,
                lastSubmit, recordedIn, cycle, fetched, wrote, saved, exc, ranked>>

CallExtractBestQuotes ==
    /\ call = NoCall
    /\ \E bets \in SeqsUpTo(BetDomain, MaxBets) :
         call' = Called("extract_best_quotes", bets, extract_best_quotes(bets))
    /\ Frame

\* save_state(path, s) followed by load_state(path)
CallSaveThenLoad ==
    /\ call = NoCall
    /\ \E s \in Mappings :
         call' = Called("save_load", s, load_state(save_state(s)))
    /\ Frame

CallChooseMarkets ==
    /\ call = NoCall
    /\ \E ms \in SeqsUpTo(MarketKinds, MaxFeed) :
         call' = Called("choose_markets", MakeFeed(ms), choose_markets(MakeFeed(ms)))
    /\ Frame

\* Probabilities the sizing functions are called on: below 0, 0, inside
\* (0, 1), 1 and above 1.
ProbDomain == {-1000, 0, 1000, 5000, 9000, 9500, One, 11000}

\* kelly_fraction on two pairs (true_prob, price_prob).
CallKellyFraction ==
    /\ call = NoCall
    /\ \E p \in ProbDomain, q \in ProbDomain, p2 \in ProbDomain, q2 \in ProbDomain :
         call' = Called("kelly_fraction", << <<p, q>>, <<p2, q2>> >>,
                        <<kelly_fraction(p, q), kelly_fraction(p2, q2)>>)
    /\ Frame

\* Quotes maybe_place_orders is called on, by their mid: 0.45, the edges 0.01
\* and 0.99, beyond the edges (0.005 and 0.995), and 1.01 from an ask above 1.
QuoteDomain ==
    { MarketQuote("a", 4000, 5000, 10),
      MarketQuote("a", 0, 200, 5),
      MarketQuote("b", 9800, One, 20),
      MarketQuote("a", 0, 100, 5),
      MarketQuote("b", 9900, One, 5),
      MarketQuote("b", 9800, 10400, 5) }

\* Bankrolls: negative, 0, below MIN_TRADE once multiplied by a fraction, and
\* large enough for the stake to pass MAX_TRADE.
BankrollDomain == {-100, 0, 1, 100, 100000}

TickDomain == {-200, 0, 20}

\* last_order_times before the call, with timestamps up to one past MaxStamp.
CallStates == UNION {[D -> 0..(MaxStamp + 1)] : D \in SUBSET {"a", "b"}}

\* time.time() at line 235: a contract ordered at time 0 has just left its
\* cooldown at the first, one ordered at MaxStamp is still inside at the second.
CallTimes == {COOLDOWN_SECONDS, COOLDOWN_SECONDS + MaxStamp - 1}

CallArg(e, quote, roll, s, t, t2, fault) ==
    [e |-> e, quote |-> quote, roll |-> roll, s |-> s, t |-> t, t2 |-> t2,
     fault |-> fault]

\* One invocation of maybe_place_orders, time.time() advancing by one second
\* between line 235 and line 261/268.
CallMaybePlaceOrders ==
    /\ call = NoCall
    /\ \E dry \in BOOLEAN, tick \in TickDomain, quote \in QuoteDomain,
          roll \in BankrollDomain, s \in CallStates, t \in CallTimes, fault \in Faults :
         LET e == Env("key", dry, 0, tick)
             r == maybe_place_orders(e, quote, roll, s, t, t + 1, fault)
         IN  /\ fault # None => r.raised # None
             /\ call' = Called("maybe_place_orders",
                               CallArg(e, quote, roll, s, t, t + 1, fault), r)
    /\ Frame

\* Values, lower and upper bounds clamp is called on (bounds in either order).
ClampDomain == {-50, 0, 1, 50, PriceFloor, PriceCeil, One}

\* clamp(x, lo, hi), and clamp applied to its own result.
CallClamp ==
    /\ call = NoCall
    /\ \E x \in ClampDomain, lo \in ClampDomain, hi \in ClampDomain :
         call' = Called("clamp", <<x, lo, hi>>,
                        <<clamp(x, lo, hi), clamp(clamp(x, lo, hi), lo, hi)>>)
    /\ Frame

\* choose_markets once more, its page requests observed.
CallScan ==
    /\ call = NoCall
    /\ \E ms \in SeqsUpTo(MarketKinds, MaxFeed) :
         call' = Called("scan", MakeFeed(ms),
                        [requests |-> ScanLoop(MakeFeed(ms), None, <<>>, <<>>).requests,
                         markets |-> choose_markets(MakeFeed(ms))])
    /\ Frame

NextPure ==
    \/ CallExtractBestQuotes
    \/ CallSaveThenLoad
    \/ CallChooseMarkets
    \/ CallKellyFraction
    \/ CallMaybePlaceOrders
    \/ CallClamp
    \/ CallScan

SpecPure == InitPure /\ [][NextPure]_vars

-----------------------------------------------------------------------------
(* Properties of the main loop *)

\* C1: once place_bet has been called for a contract at time t, no later
\* invocation of maybe_place_orders calls place_bet for that contract at a
\* time t' with t' - t < COOLDOWN_SECONDS, whatever the network calls return.
\* (calls are the calls of the current cycle, lastSubmit those of the earlier
\* cycles of the run.)
CooldownNoSecondOrder ==
    \A i \in 1..Len(calls) :
        calls[i].contract_id \in DOMAIN lastSubmit
            => calls[i].at - lastSubmit[calls[i].contract_id] >= COOLDOWN_SECONDS

\* C2: whenever the main loop reaches its sleep, save_state has run for that
\* iteration: the persisted last_order_times equals the mapping in memory.
StateSavedEveryCycle ==
    pc = "sleep" =>
        /\ saved
        /\ ~load_state(file).raised
        /\ load_state(file).last_order_times = state

\* The keys of the in-memory mapping, recorded during this run, that a process
\* restarted from the file would not find with the same timestamp.
LostKeys ==
    LET r == load_state(file)
    IN  {k \in DOMAIN state :
            /\ recordedIn[k] >= 1
            /\ \/ r.raised
               \/ k \notin DOMAIN r.last_order_times
               \/ r.last_order_times[k] # state[k]}

\* C3: when the process is killed, the entries in memory that are missing from
\* the reloaded state were all recorded during at most one scan cycle.
CrashLosesAtMostOneCycle ==
    pc = "killed" => Cardinality({recordedIn[k] : k \in LostKeys}) <= 1

\* C4: once the main loop has started (a market page has been requested), no
\* failure inside a cycle terminates the process.
LoopNeverExits == ~(pc = "exited" /\ fetched)

\* The contents of the state file that are unreadable or invalid.
InvalidFile(f) ==
    \/ f.kind \in {"missing", "unreadable", "notjson", "nonobject"}
    \/ f.kind = "object" /\ f.field = "nonmapping"

\* C5: for every unreadable or invalid content of the state file, load_state
\* returns an empty mapping and raises nothing, so startup goes on.
StateCorruptionNeverFatal ==
    (pc = "load" /\ InvalidFile(file)) => load_state(file) = Loaded(FALSE, EmptyMap)

\* A step that is an invocation of maybe_place_orders for the head of markets.
Invocation == pc = "orders" /\ markets # <<>> /\ markets' # markets

\* The head of markets passes the cooldown check with a nonzero Kelly fraction.
WouldOrder ==
    LET plan == OrderPlan(Head(markets), bankroll, env.SPREAD_TICK)
    IN  /\ ~InCooldown(state, Head(markets).contract_id, now)
        /\ plan.yes_fraction[1] > 0 \/ plan.no_fraction[1] > 0

\* C6: with DRY_RUN set no place_bet call is ever made, yet every invocation
\* of maybe_place_orders that passes the cooldown check with a nonzero Kelly
\* fraction sets last_order_times[contract_id] to the current time.
DryRunRecordsWithoutOrders ==
    /\ [](env.DRY_RUN => calls = <<>> /\ lastSubmit = EmptyMap)
    /\ [][(env.DRY_RUN /\ Invocation /\ WouldOrder)
             => /\ Head(markets).contract_id \in DOMAIN state'
                /\ state'[Head(markets).contract_id] = now'
                /\ pc' = "orders"]_vars

\* C6, its case: a dry run has recorded an order time during a cycle.
DryRunRecorded ==
    /\ env.DRY_RUN
    /\ \E k \in DOMAIN state : recordedIn[k] >= 1 /\ state[k] = now

\* A configuration error: no API key, or no positive BANKROLL and a profile
\* without a numeric balance.
ConfigError ==
    \/ env.MANIFOLD_API_KEY \in {"None", ""}
    \/ env.BANKROLL <= 0 /\ profile # None /\ profile[1][1] = "nobalance"

\* C7: with a configuration error main raises before the loop is entered: no
\* market page is fetched, no order submitted, no state file written.
ConfigErrorFatalAtStartup ==
    ConfigError =>
        /\ pc \in {"start", "exited"}
        /\ ~fetched
        /\ ~wrote
        /\ calls = <<>>
        /\ lastSubmit = EmptyMap

\* C7, its case: main has raised on a profile without a balance.
ConfigErrorExit ==
    /\ pc = "exited"
    /\ env.MANIFOLD_API_KEY = "key"
    /\ env.BANKROLL <= 0
    /\ profile # None /\ profile[1][1] = "nobalance"

-----------------------------------------------------------------------------
(* Properties of the pure functions *)

\* C8: save_state followed by load_state returns a mapping equal to the one
\* saved (same keys, same values), for every mapping of ids to timestamps.
SaveLoadRoundTrip ==
    call.fn = "save_load" =>
        /\ ~call.out.raised
        /\ call.out.last_order_times = call.arg

\* C8, its case: a mapping of several keys has gone through the file.
RoundTripOfSeveralKeys ==
    /\ call.fn = "save_load"
    /\ Cardinality(DOMAIN call.arg) >= 2
    /\ \E k \in DOMAIN call.arg : call.arg[k] > 0

SetMax(S) == CHOOSE x \in S : \A y \in S : y <= x
SetMin(S) == CHOOSE x \in S : \A y \in S : y >= x

\* An open order in the words of the data model: not cancelled, not filled,
\* limit probability set.
OpenOrder(bet) == ~bet.isCancelled /\ ~bet.isFilled /\ bet.limitProb.kind # "none"

\* What the quote of a list of bets is when `counts` says which bets count.
QuoteOver(bets, counts(_)) ==
    LET Y == {i \in 1..Len(bets) : counts(bets[i]) /\ bets[i].outcome = "YES"}
        N == {i \in 1..Len(bets) : counts(bets[i]) /\ bets[i].outcome = "NO"}
    IN  IF Y = {} \/ N = {} THEN None
        ELSE Some(<<SetMax({bets[i].limitProb.v : i \in Y}),
                    SetMin({One - bets[i].limitProb.v : i \in N})>>)

\* C9 as stated: extract_best_quotes returns (max limitProb of the open YES
\* orders, min 1 - limitProb of the open NO orders), and no quote exactly when
\* there is no open YES order or no open NO order.
QuotesOverOpenOrders ==
    call.fn = "extract_best_quotes" => call.out = QuoteOver(call.arg, OpenOrder)

NumericOpenOrder(bet) == OpenOrder(bet) /\ bet.limitProb.kind = "num"

\* C9 amended: the same over the open orders whose limitProb is a number.
QuotesOverNumericOpenOrders ==
    call.fn = "extract_best_quotes" => call.out = QuoteOver(call.arg, NumericOpenOrder)

\* C9, its case: a quote extracted from a list that also holds an order that
\* is not open.
QuoteBesideClosedOrder ==
    /\ call.fn = "extract_best_quotes"
    /\ call.out # None
    /\ \E i \in 1..Len(call.arg) : ~OpenOrder(call.arg[i])

\* C10: every quote returned by choose_markets comes from a market of the feed
\* that is not resolved, not closed, binary, has an id, and whose book gives
\* yes_ask > yes_bid with yes_ask - yes_bid >= MIN_SPREAD.
CandidatesAreEligible ==
    call.fn = "choose_markets" =>
        \A i \in 1..Len(call.out) :
            LET q == call.out[i]
            IN  /\ q.yes_ask > q.yes_bid
                /\ q.yes_ask - q.yes_bid >= MIN_SPREAD
                /\ \E j \in 1..Len(call.arg) :
                     LET m == call.arg[j]
                     IN  /\ m.id = q.contract_id
                         /\ m.id # ""
                         /\ ~m.isResolved
                         /\ ~m.isClosed
                         /\ m.outcomeType = "BINARY"
                         /\ m.volume = q.volume
                         /\ QuoteOver(m.bets, NumericOpenOrder) = Some(<<q.yes_bid, q.yes_ask>>)

\* C10, its case: a scan that returned a candidate and left out a binary, open
\* market with a quote.
CandidateBesideExcludedBook ==
    /\ call.fn = "choose_markets"
    /\ call.out # <<>>
    /\ \E j \in 1..Len(call.arg) :
         /\ call.arg[j].id \in {"g", "h"}
         /\ \A i \in 1..Len(call.out) : call.out[i].contract_id # call.arg[j].id

-----------------------------------------------------------------------------
(* Ranking and sequencing of a cycle *)

\* Descending by (spread, volume): no quote has a greater key than the one
\* before it.
Ranked(qs) == \A i \in 1..(Len(qs) - 1) : ~KeyGt(qs[i + 1], qs[i])

IsSuffix(s, t) == Len(s) <= Len(t) /\ s = SubSeq(t, Len(t) - Len(s) + 1, Len(t))
IsPrefix(s, t) == Len(s) <= Len(t) /\ s = SubSeq(t, 1, Len(s))

\* The candidate of this cycle a place_bet call was made for.
QuoteOf(c) == ranked[CHOOSE k \in 1..Len(ranked) : ranked[k].contract_id = c.contract_id]

\* The place_bet calls of the cycle follow the ranking of its candidates.
CallsFollowRanking ==
    /\ \A i \in 1..Len(calls) :
           \E k \in 1..Len(ranked) : ranked[k].contract_id = calls[i].contract_id
    /\ \A i, j \in 1..Len(calls) :
           i < j => ~KeyGt(QuoteOf(calls[j]), QuoteOf(calls[i]))

GrowingStep ==
    pc \in {"bankroll", "scan", "orders", "sleep"} =>
        /\ now' >= now
        /\ \A k \in DOMAIN state : k \in DOMAIN state' /\ state'[k] >= state[k]
        /\ Invocation =>
               (\A k \in (DOMAIN state \cup DOMAIN state') \ {Head(markets).contract_id} :
                    k \in DOMAIN state /\ k \in DOMAIN state' /\ state'[k] = state[k])
        /\ ~Invocation => state' = state

\* C19: across the cycles of a run no key is ever removed from
\* last_order_times, an invocation of maybe_place_orders for a contract
\* changes at most that contract's entry, and with a clock that never goes
\* back no stored timestamp ever decreases.
StateOnlyGrows == [][GrowingStep]_vars

\* C19, its case: an entry found in the file has been overwritten with a later
\* time during a cycle, beside an entry of another contract that was there
\* before and is kept.
EntryOverwrittenBesideAnother ==
    \E k, j \in DOMAIN state :
        /\ j # k
        /\ recordedIn[k] >= 1
        /\ recordedIn[j] < recordedIn[k]
        /\ ~load_state(file).raised
        /\ k \in DOMAIN load_state(file).last_order_times
        /\ load_state(file).last_order_times[k] < state[k]

\* A quote derived from limit probabilities in [0, 1].
InUnit(q) == 0 <= q.yes_bid /\ q.yes_bid <= One /\ 0 <= q.yes_ask /\ q.yes_ask <= One

Mid(q) == (q.yes_bid + q.yes_ask) \div 2

\* With SPREAD_TICK >= 0, the place_bet calls of the cycle: a YES order only
\* for a mid above 0.99, a NO order only for a mid below 0.01, never both for
\* one contract, and none for a quote derived from limit probabilities in
\* [0, 1].
LegsOnlyBeyondTheEdges ==
    \A i \in 1..Len(calls) :
        /\ \E k \in 1..Len(ranked) : ranked[k].contract_id = calls[i].contract_id
        /\ calls[i].outcome = "YES" => Mid(QuoteOf(calls[i])) > PriceCeil
        /\ calls[i].outcome = "NO" => Mid(QuoteOf(calls[i])) < PriceFloor
        /\ \A j \in 1..Len(calls) :
               calls[j].contract_id = calls[i].contract_id
                   => calls[j].outcome = calls[i].outcome
        /\ ~InUnit(QuoteOf(calls[i]))

\* With SPREAD_TICK >= 0, an invocation for a candidate derived from limit
\* probabilities in [0, 1] submits nothing and leaves last_order_times as it
\* was; no other step than an invocation changes either.
IdleStep ==
    env.SPREAD_TICK >= 0 =>
        /\ (Invocation /\ InUnit(Head(markets))) =>
               (calls' = calls /\ state' = state /\ exc' = None)
        /\ (~Invocation /\ pc \in {"bankroll", "scan", "orders"}) =>
               (calls' = calls /\ state' = state)

-----------------------------------------------------------------------------
(* Properties of the position sizer *)

\* A price strictly inside (0, 1).
Inside(q) == 0 < q /\ q < One

\* What every result of kelly_fraction satisfies: 0 when there is no edge or
\* the price is degenerate, positive otherwise, and in [0, 1].
KellyRange(p, q, f) ==
    /\ (p <= q \/ ~Inside(q)) => REq(f, Rat(0, 1))
    /\ (p > q /\ Inside(q)) => RLt(Rat(0, 1), f)
    /\ RLe(Rat(0, 1), f)
    /\ RLe(f, Rat(1, 1))

\* C12 as stated: kelly_fraction is 0 whenever p <= price_prob or price_prob
\* is not strictly inside (0, 1), lies in [0, 1], and of two inputs with a
\* positive edge the one with the larger edge p - price_prob gets the strictly
\* larger fraction.
KellyIncreasingInEdge ==
    call.fn = "kelly_fraction" =>
        LET p == call.arg[1][1]
            q == call.arg[1][2]
            p2 == call.arg[2][1]
            q2 == call.arg[2][2]
        IN  /\ KellyRange(p, q, call.out[1])
            /\ KellyRange(p2, q2, call.out[2])
            /\ (Inside(q) /\ Inside(q2) /\ p2 - q2 > 0 /\ p - q > p2 - q2)
                   => RLt(call.out[2], call.out[1])

\* C12 amended: the same, the fraction being strictly increasing in the edge
\* for one and the same price_prob and true probabilities of at most 1 (across
\* prices the fraction is edge / (1 - price_prob), and above 1 it is capped).
KellyIncreasingAtFixedPrice ==
    call.fn = "kelly_fraction" =>
        LET p == call.arg[1][1]
            q == call.arg[1][2]
            p2 == call.arg[2][1]
            q2 == call.arg[2][2]
        IN  /\ KellyRange(p, q, call.out[1])
            /\ KellyRange(p2, q2, call.out[2])
            /\ (Inside(q) /\ q2 = q /\ p2 - q2 > 0 /\ p - q > p2 - q2 /\ p <= One)
                   => RLt(call.out[2], call.out[1])

\* C12, its case: two inputs of positive edge at one price, the larger edge
\* with the larger fraction.
KellyTwoEdgesAtOnePrice ==
    /\ call.fn = "kelly_fraction"
    /\ Inside(call.arg[1][2])
    /\ call.arg[2][2] = call.arg[1][2]
    /\ call.arg[2][1] > call.arg[2][2]
    /\ call.arg[1][1] > call.arg[2][1]
    /\ call.arg[1][1] <= One
    /\ RLt(call.out[2], call.out[1])

-----------------------------------------------------------------------------
(* Properties of one invocation of maybe_place_orders *)

\* The prices, fractions and amounts of the invocation held by the harness.
CallPlan == OrderPlan(call.arg.quote, call.arg.roll, call.arg.e.SPREAD_TICK)

\* C13: every NO order is submitted with limit_prob = no_price =
\* clamp(1 - mid + SPREAD_TICK, 0.01, 0.99), and every YES order with
\* limit_prob = yes_price.
LegsAtTheirOwnPrice ==
    call.fn = "maybe_place_orders" =>
        \A i \in 1..Len(call.out.bets) :
            LET bet == call.out.bets[i]
            IN  /\ bet.outcome = "NO" => bet.limit_prob = CallPlan.no_price
                /\ bet.outcome = "YES" => bet.limit_prob = CallPlan.yes_price

\* The invocation held by the harness passes the cooldown check of line 235
\* with at least one nonzero Kelly fraction.
CallPasses ==
    /\ ~InCooldown(call.arg.s, call.arg.quote.contract_id, call.arg.t)
    /\ CallPlan.yes_fraction[1] > 0 \/ CallPlan.no_fraction[1] > 0

\* The end of the invocation finds the contract's timestamp set to the
\* current time.
CallRecorded ==
    /\ call.arg.quote.contract_id \in DOMAIN call.out.last_order_times
    /\ call.out.last_order_times[call.arg.quote.contract_id] = call.arg.t2

\* The place_bet calls of the invocation that returned: all of them, or all
\* but the last when that one raised.
ReturnedBets(out) ==
    IF out.raised = None THEN out.bets ELSE SubSeq(out.bets, 1, Len(out.bets) - 1)

\* C15: an invocation of maybe_place_orders that passes the cooldown check
\* with a nonzero Kelly fraction has set last_order_times[contract_id] to the
\* current time when it ends, whichever legs fired; in particular none has an
\* order accepted (a place_bet call that returned) and leaves the contract's
\* timestamp unrecorded.
TimestampRecordedUniformly ==
    call.fn = "maybe_place_orders" =>
        /\ (CallPasses /\ call.out.raised = None) => CallRecorded
        /\ ReturnedBets(call.out) # <<>> => CallRecorded

\* Both Kelly fractions of the invocation held by the harness are zero.
CallBothZero == CallPlan.yes_fraction[1] = 0 /\ CallPlan.no_fraction[1] = 0

\* C16: invoked for a market inside its cooldown window, or with both Kelly
\* fractions zero, maybe_place_orders calls place_bet zero times and leaves
\* last_order_times unchanged; and no leg with a zero fraction is ever
\* submitted, whatever its clamped amount.
SkipPathsHaveNoEffect ==
    call.fn = "maybe_place_orders" =>
        /\ (InCooldown(call.arg.s, call.arg.quote.contract_id, call.arg.t) \/ CallBothZero)
               => /\ call.out.bets = <<>>
                  /\ call.out.last_order_times = call.arg.s
                  /\ call.out.raised = None
        /\ \A i \in 1..Len(call.out.bets) :
               /\ call.out.bets[i].outcome = "YES" => CallPlan.yes_fraction[1] > 0
               /\ call.out.bets[i].outcome = "NO" => CallPlan.no_fraction[1] > 0

\* C16, its case: outside the cooldown, both fractions are zero while both
\* amounts were clamped up to MIN_TRADE, and nothing was submitted or recorded.
SkippedWithClampedAmounts ==
    /\ call.fn = "maybe_place_orders"
    /\ ~InCooldown(call.arg.s, call.arg.quote.contract_id, call.arg.t)
    /\ CallBothZero
    /\ ~call.arg.e.DRY_RUN
    /\ call.arg.roll > 0
    /\ REq(CallPlan.yes_amount, Rat(MIN_TRADE, 1))
    /\ REq(CallPlan.no_amount, Rat(MIN_TRADE, 1))
    /\ call.arg.quote.contract_id \in DOMAIN call.arg.s
    /\ call.out = Outcome(call.arg.s, <<>>, None)

-----------------------------------------------------------------------------
(* Properties of the pagination *)

\* C17: within one call of choose_markets the first page is requested without
\* a cursor; a further page is requested only if the previous page was not
\* empty, its last market carries a createdTime, which is the cursor of the
\* next request, and fewer than MAX_MARKETS_PER_LOOP candidates are held; the
\* returned list has at most MAX_MARKETS_PER_LOOP entries; and against a finite
\* feed served with a strictly advancing cursor the scan ends, after at most
\* one request per market and one more.
PaginationStops ==
    call.fn = "scan" =>
        LET rq == call.out.requests
        IN  /\ Len(rq) >= 1
            /\ rq[1].before = None
            /\ \A i \in 2..Len(rq) :
                   LET prev == rq[i - 1].batch
                   IN  /\ prev # <<>>
                       /\ prev[Len(prev)].createdTime # None
                       /\ rq[i].before = prev[Len(prev)].createdTime
                       /\ rq[i].have < MAX_MARKETS_PER_LOOP
            /\ Len(call.out.markets) <= MAX_MARKETS_PER_LOOP
            /\ Len(rq) <= Len(call.arg) + 1

\* C17, its case: a scan that asked for a second page with the cursor of the
\* first, found it non-empty and ending in a cursor, and stopped there on the
\* cap.
ScanStoppedOnCap ==
    /\ call.fn = "scan"
    /\ Len(call.out.requests) = 2
    /\ call.out.requests[2].before # None
    /\ call.out.requests[2].have = MAX_MARKETS_PER_LOOP - 1
    /\ call.out.requests[2].batch # <<>>
    /\ call.out.requests[2].batch[Len(call.out.requests[2].batch)].createdTime # None
    /\ Len(call.out.markets) = MAX_MARKETS_PER_LOOP

\* C18: with MIN_TRADE <= MAX_TRADE, every place_bet call made by
\* maybe_place_orders, for any quote and any bankroll, carries an amount in
\* [MIN_TRADE, MAX_TRADE] and a limit probability in [0.01, 0.99].
OrdersWithinBounds ==
    (call.fn = "maybe_place_orders" /\ MIN_TRADE <= MAX_TRADE) =>
        \A i \in 1..Len(call.out.bets) :
            LET bet == call.out.bets[i]
            IN  /\ RLe(Rat(MIN_TRADE, 1), bet.amount)
                /\ RLe(bet.amount, Rat(MAX_TRADE, 1))
                /\ PriceFloor <= bet.limit_prob
                /\ bet.limit_prob <= PriceCeil

\* C18, its case: with a bankroll of 0 an order was submitted at MIN_TRADE,
\* its price clamped onto an edge of [0.01, 0.99].
OrderFromEmptyBankroll ==
    /\ call.fn = "maybe_place_orders"
    /\ call.arg.roll = 0
    /\ \E i \in 1..Len(call.out.bets) :
          /\ REq(call.out.bets[i].amount, Rat(MIN_TRADE, 1))
          /\ call.out.bets[i].limit_prob \in {PriceFloor, PriceCeil}

=============================================================================
